---- MODULE Spec2Model ----
(***************************************************************************)
(* rust-lcd: discovery of backlight devices under a root directory and the *)
(* read / flip / write toggle of a device's power-control file.            *)
(* Modelled from src/src/lib.rs and src/src/main.rs.                       *)
(***************************************************************************)
EXTENDS Integers, Sequences, FiniteSets, TLC

(* ---------------------------------------------------------------- bounds *)
MaxLen == 3        \* longest initial content of a control file, in characters
MaxCalls == 3      \* toggle() calls made by the sequential caller
MaxList == 3       \* longest directory listing
MaxAdvances == 5   \* next() calls made on one discovery instance
MaxDynList == 2    \* longest listing of a device tree that changes meanwhile
MaxEnv == 2        \* changes other processes make to the device tree

(* ------------------------------------------------------ program constants *)
BACKLIGHT_PATH == <<"sys", "class", "backlight">>
BL_POWER == "bl_power"
I32Min == -2147483647 - 1
I32Max == 2147483647

(* ------------------------------------------------------------ characters *)
Digits == <<"0", "1", "2", "3", "4", "5", "6", "7", "8", "9">>
BadByte == "<FF>"                 \* a byte that is not valid UTF-8
White == {" ", "\n"}
Chars == {"0", "1", "-", "+", " ", "\n", "a", BadByte}

IsDigit(c) == \E i \in 1..10 : Digits[i] = c
DigitVal(c) == (CHOOSE i \in 1..10 : Digits[i] = c) - 1

RECURSIVE SeqsUpTo(_, _)
SeqsUpTo(S, n) ==
    IF n = 0 THEN {<<>>}
    ELSE LET shorter == SeqsUpTo(S, n - 1)
         IN  shorter \cup {Append(s, c) : s \in shorter, c \in S}

(* --------------------------------------------------------------- results *)
Ok(v) == [ok |-> TRUE, value |-> v]
Err(k, m) == [ok |-> FALSE, kind |-> k, msg |-> m]

(* ----------------------------------------------------------------- paths *)
\* Path::join with a single relative segment
join(path, seg) == Append(path, seg)
parent(path) == SubSeq(path, 1, Len(path) - 1)

bl_power(path) == join(path, BL_POWER)

\* variant: the control-file name is not joined
Device_new_no_join(path) == [path |-> path, bl_power |-> path]

\* variant: the control-file location is stored as the device path
Device_new_deep(path) == [path |-> join(path, BL_POWER), bl_power |-> join(path, BL_POWER)]

Device_new(path) == [path |-> path, bl_power |-> join(path, BL_POWER)]

\* Option<Q> of Device::custom: an override of the control-file name
NoName == [some |-> FALSE, name |-> ""]
SomeName(q) == [some |-> TRUE, name |-> q]

\* Device::custom
Device_custom(path, q) ==
    IF q.some
    THEN [path |-> path, bl_power |-> join(path, q.name)]
    ELSE [path |-> path, bl_power |-> join(path, BL_POWER)]

Entries == {"devA", "devB", "devC"}
EntryPath(e) == join(BACKLIGHT_PATH, e)
ControlFiles == {bl_power(EntryPath(e)) : e \in Entries}

(* ------------------------------------------------------------ str::trim *)
RECURSIVE trim_start(_)
trim_start(s) ==
    IF s # <<>> /\ Head(s) \in White THEN trim_start(Tail(s)) ELSE s

RECURSIVE trim_end(_)
trim_end(s) ==
    IF s # <<>> /\ s[Len(s)] \in White
    THEN trim_end(SubSeq(s, 1, Len(s) - 1))
    ELSE s

trim(s) == trim_end(trim_start(s))

(* ---------------------------------------------------- str::parse::<i32> *)
\* accumulate the digits with the sign applied, failing on a non-digit or
\* when the value leaves the i32 range
RECURSIVE parse_digits(_, _, _)
parse_digits(s, acc, sign) ==
    IF s = <<>> THEN Ok(acc)
    ELSE IF ~IsDigit(Head(s)) THEN Err("InvalidDigit", "")
    ELSE LET v == acc * 10 + sign * DigitVal(Head(s))
         IN  IF v < I32Min \/ v > I32Max
             THEN Err("Overflow", "")
             ELSE parse_digits(Tail(s), v, sign)

parse_i32(s) ==
    IF s = <<>> THEN Err("Empty", "")
    ELSE IF Head(s) \in {"-", "+"}
    THEN IF Len(s) = 1 THEN Err("InvalidDigit", "")
         ELSE parse_digits(Tail(s), 0, IF Head(s) = "-" THEN -1 ELSE 1)
    ELSE parse_digits(s, 0, 1)

(* ------------------------------------------------------- i32::to_string *)
RECURSIVE to_string(_)
to_string(v) ==
    IF v < 0 THEN <<"-">> \o to_string(-v)
    ELSE IF v < 10 THEN <<Digits[v + 1]>>
    ELSE to_string(v \div 10) \o <<Digits[(v % 10) + 1]>>

(* ------------------------------------------------------------ file system *)
\* a control-file node: what is found at <entry>/bl_power
Modes == {"rw", "ro", "wo"}
Readable(n) == n.mode \in {"rw", "ro"}
Writable(n) == n.mode \in {"rw", "wo"}
Absent == [kind |-> "absent", data |-> <<>>, mode |-> "rw"]
Dir == [kind |-> "dir", data |-> <<>>, mode |-> "rw"]
File(d, m) == [kind |-> "file", data |-> d, mode |-> m]

\* Path::is_file: metadata succeeds and names a regular file
is_file(f, path) == path \in DOMAIN f /\ f[path].kind = "file"

\* fs::read_to_string
read_to_string(f, path) ==
    IF path \notin DOMAIN f \/ f[path].kind = "absent"
    THEN Err("NotFound", "No such file or directory")
    ELSE IF ~Readable(f[path])
    THEN Err("PermissionDenied", "Permission denied")
    ELSE IF f[path].kind = "dir"
    THEN Err("IsADirectory", "Is a directory")
    ELSE IF \E i \in 1..Len(f[path].data) : f[path].data[i] = BadByte
    THEN Err("InvalidData", "stream did not contain valid UTF-8")
    ELSE Ok(f[path].data)

\* fs::write: create or truncate, then write the whole buffer
fs_write(f, path, data) ==
    IF path \notin DOMAIN f
    THEN [fs |-> f, res |-> Err("NotFound", "No such file or directory")]
    ELSE IF f[path].kind = "absent"
    THEN [fs |-> [f EXCEPT ![path] = File(data, "rw")], res |-> Ok("unit")]
    ELSE IF ~Writable(f[path])
    THEN [fs |-> f, res |-> Err("PermissionDenied", "Permission denied")]
    ELSE IF f[path].kind = "dir"
    THEN [fs |-> f, res |-> Err("IsADirectory", "Is a directory")]
    ELSE [fs |-> [f EXCEPT ![path].data = data], res |-> Ok("unit")]

(* ------------------------------------------------- read_i32 / write_i32 *)
\* variant: unparseable content counts as 0
read_i32_or_zero(f, path) ==
    LET text == read_to_string(f, path)
    IN  IF ~text.ok THEN text
        ELSE LET n == parse_i32(trim(text.value))
             IN  IF n.ok THEN n ELSE Ok(0)

\* variant: the parse failure keeps no kind of its own
read_i32_other_kind(f, path) ==
    LET text == read_to_string(f, path)
    IN  IF ~text.ok THEN text
        ELSE LET n == parse_i32(trim(text.value))
             IN  IF n.ok THEN n
                 ELSE Err("Other", "cannot parse i32")

read_i32(f, path) ==
    LET text == read_to_string(f, path)
    IN  IF ~text.ok THEN text
        ELSE LET n == parse_i32(trim(text.value))
             IN  IF n.ok THEN n
                 ELSE Err("InvalidData", "cannot parse i32")

\* variant: the value is written as a line
write_i32_newline(f, path, value) ==
    fs_write(f, path, to_string(value) \o <<"\n">>)

write_i32(f, path, value) == fs_write(f, path, to_string(value))

\* variants of the flip: only 1 turns into 0; the branches swapped
new_value_only_one(old_value) == IF old_value = 1 THEN 0 ELSE 1
new_value_swapped(old_value) == IF old_value = 0 THEN 0 ELSE 1

\* the flip of Device::toggle
new_value(old_value) == IF old_value = 0 THEN 1 ELSE 0

(* ------------------------------------------------------------------ state *)
VARIABLES
    fs,        \* control-file path -> node
    root_ok,   \* fs::read_dir on the root directory succeeds
    listing,   \* the entries the root's ReadDir yields, in order
    th,        \* caller -> frame of its Device::toggle call
    calls,     \* history: the toggle calls that have returned
    oplog,     \* history: file operations issued by toggle calls, in order
    it,        \* discovery form -> its instance
    drv,       \* the frame of main
    fs0,       \* history: the file system at the start
    made,      \* the Device a caller has constructed and holds
    envlog     \* history: what other processes did to the device tree

vars == <<fs, root_ok, listing, th, calls, oplog, it, drv, fs0, made, envlog>>

Threads == {"t1", "t2"}
Callers == Threads \cup {"main"}

NoDevice == [path |-> <<>>, bl_power |-> <<>>]
NoResult == Err("none", "")
IdleFrame == [pc |-> "idle", dev |-> NoDevice, old_value |-> 0,
              new_value |-> 0, before |-> Absent, result |-> NoResult]

\* nothing constructed yet; otherwise the Device, the constructor that
\* built it and the arguments it was given
NotMade == [dev |-> NoDevice, by |-> "none", path |-> <<>>, override |-> NoName]

(* ---------------------------------------------------------- Device::toggle *)
\* a caller invokes device.toggle()
Call(c, dev) ==
    /\ th[c].pc \in {"idle", "ret"}
    /\ Len(calls) < MaxCalls
    /\ th' = [th EXCEPT ![c] = [IdleFrame EXCEPT !.pc = "read", !.dev = dev]]
    /\ UNCHANGED <<fs, root_ok, listing, calls, oplog, it, drv, fs0, made, envlog>>

Returned(c, frame) ==
    Append(calls, [caller |-> c, bl_power |-> frame.dev.bl_power,
                   before |-> frame.before, old_value |-> frame.old_value,
                   read_ok |-> frame.pc = "write",
                   result |-> frame.result, after |-> fs'[frame.dev.bl_power]])

\* variant: the file is opened for writing, and so emptied, in the read step
ToggleRead_truncating(c) ==
    /\ th[c].pc = "read"
    /\ LET path == th[c].dev.bl_power
           r == read_i32(fs, path)
           frame == [th[c] EXCEPT !.before = fs[path]]
       IN  /\ oplog' = Append(oplog, [who |-> c, op |-> "read", path |-> path])
           /\ UNCHANGED <<root_ok, listing, it, drv, fs0, made, envlog>>
           /\ IF r.ok
              THEN /\ th' = [th EXCEPT ![c] =
                                [frame EXCEPT !.pc = "write",
                                              !.old_value = r.value,
                                              !.new_value = new_value(r.value)]]
                   /\ fs' = fs_write(fs, path, <<>>).fs
                   /\ UNCHANGED calls
              ELSE /\ th' = [th EXCEPT ![c] =
                                [frame EXCEPT !.pc = "ret", !.result = r]]
                   /\ fs' = fs
                   /\ calls' = Returned(c, [frame EXCEPT !.result = r])

\* let old_value = read_i32(&self.bl_power)?; let new_value = ...
ToggleRead(c) ==
    /\ th[c].pc = "read"
    /\ LET path == th[c].dev.bl_power
           r == read_i32(fs, path)
           frame == [th[c] EXCEPT !.before = fs[path]]
       IN  /\ oplog' = Append(oplog, [who |-> c, op |-> "read", path |-> path])
           /\ UNCHANGED <<fs, root_ok, listing, it, drv, fs0, made, envlog>>
           /\ IF r.ok
              THEN /\ th' = [th EXCEPT ![c] =
                                [frame EXCEPT !.pc = "write",
                                              !.old_value = r.value,
                                              !.new_value = new_value(r.value)]]
                   /\ UNCHANGED calls
              ELSE /\ th' = [th EXCEPT ![c] =
                                [frame EXCEPT !.pc = "ret", !.result = r]]
                   /\ calls' = Returned(c, [frame EXCEPT !.result = r])

\* variant: the write step reads the file again and flips what it finds
ToggleWrite_reread(c) ==
    /\ th[c].pc = "write"
    /\ LET path == th[c].dev.bl_power
           r == read_i32(fs, path)
           v == IF r.ok THEN new_value(r.value) ELSE th[c].new_value
           w == write_i32(fs, path, v)
           res == IF w.res.ok THEN Ok(v) ELSE w.res
       IN  /\ fs' = w.fs
           /\ oplog' = Append(oplog, [who |-> c, op |-> "write", path |-> path])
           /\ th' = [th EXCEPT ![c] = [@ EXCEPT !.pc = "ret", !.result = res]]
           /\ calls' = Returned(c, [th[c] EXCEPT !.result = res])
           /\ UNCHANGED <<root_ok, listing, it, drv, fs0, made, envlog>>

\* variant: the new value is written to every control file there is
ToggleWrite_all(c) ==
    /\ th[c].pc = "write"
    /\ LET path == th[c].dev.bl_power
           w == write_i32(fs, path, th[c].new_value)
           res == IF w.res.ok THEN Ok(th[c].new_value) ELSE w.res
       IN  /\ fs' = [p \in DOMAIN fs |->
                       IF fs[p].kind = "file"
                       THEN write_i32(fs, p, th[c].new_value).fs[p]
                       ELSE w.fs[p]]
           /\ oplog' = Append(oplog, [who |-> c, op |-> "write", path |-> path])
           /\ th' = [th EXCEPT ![c] = [@ EXCEPT !.pc = "ret", !.result = res]]
           /\ calls' = Returned(c, [th[c] EXCEPT !.result = res])
           /\ UNCHANGED <<root_ok, listing, it, drv, fs0, made, envlog>>

\* write_i32(&self.bl_power, new_value)?; Ok(new_value)
ToggleWrite(c) ==
    /\ th[c].pc = "write"
    /\ LET path == th[c].dev.bl_power
           w == write_i32(fs, path, th[c].new_value)
           res == IF w.res.ok THEN Ok(th[c].new_value) ELSE w.res
       IN  /\ fs' = w.fs
           /\ oplog' = Append(oplog, [who |-> c, op |-> "write", path |-> path])
           /\ th' = [th EXCEPT ![c] = [@ EXCEPT !.pc = "ret", !.result = res]]
           /\ calls' = Returned(c, [th[c] EXCEPT !.result = res])
           /\ UNCHANGED <<root_ok, listing, it, drv, fs0, made, envlog>>


(* -------------------------------------------------------------- discovery *)
Forms == {"DeviceIter", "iterate_devices"}

\* Option<fs::ReadDir>: the root it was opened on and the next entry to read
NoReadDir == [some |-> FALSE, root |-> <<>>, pos |-> 0]
ReadDir(root) == [some |-> TRUE, root |-> root, pos |-> 1]

\* what the ReadDir yields: Ok(DirEntry) or Err
OkEntry(name) == [ok |-> TRUE, name |-> name]
ErrEntry == [ok |-> FALSE, name |-> "?"]
ListItems == {OkEntry(e) : e \in Entries} \cup {ErrEntry}

\* fs::read_dir
read_dir(ok, root) ==
    IF ok THEN Ok(ReadDir(root))
    ELSE Err("NotFound", "No such file or directory")

None == [some |-> FALSE, dev |-> NoDevice]
Some(dev) == [some |-> TRUE, dev |-> dev]

\* variant: the control file only has to exist
qualifies_exists(f, path) ==
    bl_power(path) \in DOMAIN f /\ f[bl_power(path)].kind # "absent"

\* variant: the check is answered from the tree as it was at the start
qualifies_at_start(f, path) == is_file(fs0, bl_power(path))

\* .filter(|path| bl_power(path).is_file())
qualifies(f, path) == is_file(f, bl_power(path))

\* variant: an entry that fails to list ends the sequence
RECURSIVE chain_next_stop_on_err(_, _, _)
chain_next_stop_on_err(f, lst, rd) ==
    IF rd.pos > Len(lst)
    THEN [readdir |-> rd, item |-> None, ops |-> <<[op |-> "next_entry", arg |-> rd.root]>>]
    ELSE LET e == lst[rd.pos]
             path == join(rd.root, e.name)
             rest == [rd EXCEPT !.pos = @ + 1]
         IN  IF ~e.ok
             THEN [readdir |-> [rd EXCEPT !.pos = Len(lst) + 1], item |-> None,
                   ops |-> <<[op |-> "next_entry", arg |-> rd.root]>>]
             ELSE IF qualifies(f, path)
             THEN [readdir |-> rest, item |-> Some(Device_new(path)),
                   ops |-> <<[op |-> "next_entry", arg |-> rd.root],
                             [op |-> "is_file", arg |-> bl_power(path)]>>]
             ELSE LET r == chain_next_stop_on_err(f, lst, rest)
                  IN  [r EXCEPT !.ops = <<[op |-> "next_entry", arg |-> rd.root],
                                          [op |-> "is_file", arg |-> bl_power(path)]>>
                                        \o @]

\* .filter(|entry| entry.is_ok()).map(|entry| entry.unwrap().path())
\* .filter(|path| bl_power(path).is_file()) ... .map(|p| Device::new(&p)),
\* advanced once: entries are pulled from the ReadDir until one passes
RECURSIVE chain_next(_, _, _)
chain_next(f, lst, rd) ==
    IF rd.pos > Len(lst)
    THEN [readdir |-> rd, item |-> None, ops |-> <<[op |-> "next_entry", arg |-> rd.root]>>]
    ELSE LET e == lst[rd.pos]
             path == join(rd.root, e.name)
             rest == [rd EXCEPT !.pos = @ + 1]
         IN  IF ~e.ok
             THEN LET r == chain_next(f, lst, rest)
                  IN  [r EXCEPT !.ops = <<[op |-> "next_entry", arg |-> rd.root]>> \o @]
             ELSE IF qualifies(f, path)
             THEN [readdir |-> rest, item |-> Some(Device_new(path)),
                   ops |-> <<[op |-> "next_entry", arg |-> rd.root],
                             [op |-> "is_file", arg |-> bl_power(path)]>>]
             ELSE LET r == chain_next(f, lst, rest)
                  IN  [r EXCEPT !.ops = <<[op |-> "next_entry", arg |-> rd.root],
                                          [op |-> "is_file", arg |-> bl_power(path)]>>
                                        \o @]

\* DeviceIter::new
DeviceIter_new(ok, path) ==
    LET r == read_dir(ok, path)
    IN  [readdir |-> IF r.ok THEN r.value ELSE NoReadDir]

\* variant: an instance without a handle tries to open the root again
DeviceIter_next_retry(f, lst, self) ==
    IF self.readdir.some
    THEN chain_next(f, lst, self.readdir)
    ELSE IF root_ok
    THEN chain_next(f, lst, ReadDir(BACKLIGHT_PATH))
    ELSE [readdir |-> self.readdir, item |-> None, ops |-> <<>>]

\* <DeviceIter as Iterator>::next
DeviceIter_next(f, lst, self) ==
    IF self.readdir.some
    THEN chain_next(f, lst, self.readdir)
    ELSE [readdir |-> self.readdir, item |-> None, ops |-> <<>>]

\* variant: the open failure is swallowed as in DeviceIter::new
iterate_devices_silent(ok, dir) ==
    LET r == read_dir(ok, dir)
    IN  IF r.ok THEN Ok([readdir |-> r.value])
        ELSE Ok([readdir |-> [some |-> FALSE, root |-> dir,
                              pos |-> MaxList + MaxAdvances + 1]])

\* iterate_devices: the ? on fs::read_dir, then the lazy adapter chain
iterate_devices(ok, dir) ==
    LET r == read_dir(ok, dir)
    IN  IF r.ok THEN Ok([readdir |-> r.value]) ELSE r

\* variant: the iterator stops at an entry that fails to list
iterate_devices_next_stop(f, lst, self) ==
    chain_next_stop_on_err(f, lst, self.readdir)

\* next() of the iterator iterate_devices returned
iterate_devices_next(f, lst, self) == chain_next(f, lst, self.readdir)

\* an instance before it is constructed
NoInstance == [state |-> "none", readdir |-> NoReadDir, result |-> NoResult,
               yielded |-> <<>>, advances |-> 0, last |-> None, ops |-> <<>>]

\* variant: the position reached in the listing is not kept
Advanced_rescan(inst, r) ==
    [inst EXCEPT !.yielded = IF r.item.some THEN Append(@, r.item.dev) ELSE @,
                 !.advances = @ + 1,
                 !.last = r.item,
                 !.ops = @ \o r.ops]

Advanced(inst, r) ==
    [inst EXCEPT !.readdir = r.readdir,
                 !.yielded = IF r.item.some THEN Append(@, r.item.dev) ELSE @,
                 !.advances = @ + 1,
                 !.last = r.item,
                 !.ops = @ \o r.ops]

\* let iter = DeviceIter::new(root)  (DeviceIter::default when root is BACKLIGHT_PATH)
DeviceIterNew ==
    /\ it["DeviceIter"].state = "none"
    /\ it' = [it EXCEPT !["DeviceIter"] =
                [NoInstance EXCEPT !.state = "open",
                                   !.readdir = DeviceIter_new(root_ok, BACKLIGHT_PATH).readdir,
                                   !.ops = <<[op |-> "read_dir", arg |-> BACKLIGHT_PATH]>>]]
    /\ UNCHANGED <<fs, root_ok, listing, th, calls, oplog, drv, fs0, made, envlog>>

\* iter.next()
DeviceIterNext ==
    /\ it["DeviceIter"].state = "open"
    /\ it["DeviceIter"].advances < MaxAdvances
    /\ it' = [it EXCEPT !["DeviceIter"] =
                Advanced(@, DeviceIter_next(fs, listing, it["DeviceIter"]))]
    /\ UNCHANGED <<fs, root_ok, listing, th, calls, oplog, drv, fs0, made, envlog>>

\* let r = iterate_devices(root)
IterateDevices ==
    /\ it["iterate_devices"].state = "none"
    /\ LET r == iterate_devices(root_ok, BACKLIGHT_PATH)
       IN  it' = [it EXCEPT !["iterate_devices"] =
                    [NoInstance EXCEPT !.state = IF r.ok THEN "open" ELSE "failed",
                                       !.readdir = IF r.ok THEN r.value.readdir ELSE NoReadDir,
                                       !.result = IF r.ok THEN Ok("iterator") ELSE r,
                                       !.ops = <<[op |-> "read_dir", arg |-> BACKLIGHT_PATH]>>]]
    /\ UNCHANGED <<fs, root_ok, listing, th, calls, oplog, drv, fs0, made, envlog>>

\* r.unwrap().next()
IterateDevicesNext ==
    /\ it["iterate_devices"].state = "open"
    /\ it["iterate_devices"].advances < MaxAdvances
    /\ it' = [it EXCEPT !["iterate_devices"] =
                Advanced(@, iterate_devices_next(fs, listing, it["iterate_devices"]))]
    /\ UNCHANGED <<fs, root_ok, listing, th, calls, oplog, drv, fs0, made, envlog>>


(* ------------------------------------------------------------------- main *)
\* for device in iterate_devices(BACKLIGHT_PATH)?
MainStart ==
    /\ drv.pc = "start"
    /\ LET r == iterate_devices(root_ok, BACKLIGHT_PATH)
       IN  drv' = IF r.ok
                  THEN [drv EXCEPT !.pc = "loop",
                                   !.iter = [NoInstance EXCEPT
                                               !.state = "open",
                                               !.readdir = r.value.readdir,
                                               !.result = Ok("iterator"),
                                               !.ops = <<[op |-> "read_dir", arg |-> BACKLIGHT_PATH]>>]]
                  ELSE [drv EXCEPT !.pc = "exit", !.status = r,
                                   !.iter = [NoInstance EXCEPT
                                               !.state = "failed",
                                               !.result = r,
                                               !.ops = <<[op |-> "read_dir", arg |-> BACKLIGHT_PATH]>>]]
    /\ UNCHANGED <<fs, root_ok, listing, th, calls, oplog, it, fs0, made, envlog>>

\* the loop asks the iterator for the next device: at the end main returns
\* Ok(()), otherwise the device is printed and device.toggle() is called
MainNext ==
    /\ drv.pc = "loop"
    /\ LET r == iterate_devices_next(fs, listing, drv.iter)
       IN  IF r.item.some
           THEN /\ drv' = [drv EXCEPT !.pc = "toggle",
                                      !.iter = Advanced(@, r),
                                      !.printed = Append(@, r.item.dev)]
                /\ th' = [th EXCEPT !["main"] =
                            [IdleFrame EXCEPT !.pc = "read", !.dev = r.item.dev]]
           ELSE /\ drv' = [drv EXCEPT !.pc = "exit",
                                      !.iter = Advanced(@, r),
                                      !.status = Ok("unit")]
                /\ UNCHANGED th
    /\ UNCHANGED <<fs, root_ok, listing, calls, oplog, it, fs0, made, envlog>>

\* variant: the result of toggle() is dropped
MainResume_ignore_error ==
    /\ drv.pc = "toggle"
    /\ th["main"].pc = "ret"
    /\ drv' = [drv EXCEPT !.pc = "loop"]
    /\ UNCHANGED <<fs, root_ok, listing, th, calls, oplog, it, fs0, made, envlog>>

\* variant: Ok(()) is returned from inside the loop
MainResume_return_in_loop ==
    /\ drv.pc = "toggle"
    /\ th["main"].pc = "ret"
    /\ drv' = IF th["main"].result.ok
              THEN [drv EXCEPT !.pc = "exit", !.status = Ok("unit")]
              ELSE [drv EXCEPT !.pc = "exit", !.status = th["main"].result]
    /\ UNCHANGED <<fs, root_ok, listing, th, calls, oplog, it, fs0, made, envlog>>

\* device.toggle()?: an error leaves main, a value goes round the loop
MainResume ==
    /\ drv.pc = "toggle"
    /\ th["main"].pc = "ret"
    /\ drv' = IF th["main"].result.ok
              THEN [drv EXCEPT !.pc = "loop"]
              ELSE [drv EXCEPT !.pc = "exit", !.status = th["main"].result]
    /\ UNCHANGED <<fs, root_ok, listing, th, calls, oplog, it, fs0, made, envlog>>

(* --------------------------------------------- one caller, one device *)
DevA == Device_new(EntryPath("devA"))

Contents == SeqsUpTo(Chars, MaxLen)
Nodes == {Absent, Dir} \cup {File(d, m) : d \in Contents, m \in Modes}

InitCommon ==
    /\ th = [c \in Callers |-> IdleFrame]
    /\ calls = <<>>
    /\ oplog = <<>>
    /\ it = [f \in Forms |-> NoInstance]
    /\ drv = [pc |-> "start", iter |-> NoInstance, status |-> NoResult, printed |-> <<>>]
    /\ fs0 = fs
    /\ made = NotMade
    /\ envlog = <<>>

InitToggle ==
    /\ fs \in [{DevA.bl_power} -> Nodes]
    /\ root_ok = TRUE
    /\ listing = <<>>
    /\ InitCommon

NextToggle ==
    \/ Call("t1", DevA)
    \/ ToggleRead("t1")
    \/ ToggleWrite("t1")

SpecToggle == InitToggle /\ [][NextToggle]_vars

(* ------------------------------------------------------ toggle: contract *)
\* what the call found in the control file when it read it
TextRead(c) == read_to_string(c.bl_power :> c.before, c.bl_power)
Malformed(c) == TextRead(c).ok /\ ~parse_i32(trim(TextRead(c).value)).ok
InvalidUtf8(c) ==
    /\ c.before.kind = "file"
    /\ Readable(c.before)
    /\ \E i \in 1..Len(c.before.data) : c.before.data[i] = BadByte
Succeeded(c) == c.result.ok
Returns == {calls[i] : i \in 1..Len(calls)}

\* C1: a toggle that returns successfully read an integer n from the control
\* file and returns exactly 0 when n is nonzero and exactly 1 when n is zero.
C1_ToggleFlipsToZeroOrOne ==
    \A c \in Returns :
        Succeeded(c) =>
            /\ TextRead(c).ok
            /\ parse_i32(trim(TextRead(c).value)) = Ok(c.old_value)
            /\ c.old_value # 0 => c.result.value = 0
            /\ c.old_value = 0 => c.result.value = 1

\* a value other than 0 and 1 was read and flipped, and then 0 was read and flipped
C1_Witness ==
    /\ Len(calls) >= 2
    /\ Succeeded(calls[1]) /\ calls[1].old_value \notin {0, 1}
    /\ Succeeded(calls[2]) /\ calls[2].old_value = 0

\* C2: after a toggle that returns successfully the whole content of the
\* control file is the decimal string of the returned value, "0" or "1",
\* with nothing left of the previous content and no trailing newline.
C2_FileHoldsReturnedValue ==
    \A c \in Returns :
        Succeeded(c) =>
            /\ c.after.kind = "file"
            /\ c.after.data = to_string(c.result.value)
            /\ c.after.data \in {<<"0">>, <<"1">>}

\* three successful toggles in a row, the first over a longer content with
\* surrounding whitespace
C2_Witness ==
    /\ Len(calls) = 3
    /\ \A i \in 1..3 : Succeeded(calls[i])
    /\ Len(calls[1].before.data) = 3
    /\ calls[1].before.data[3] = "\n"

\* C3: with no failure and no other writer, two successive toggles of a file
\* holding "0" return 1 then 0 and leave "0"; of a file holding "1" they
\* return 0 then 1 and leave "1".
C3_ToggleTwiceRestores ==
    \A i \in 1..(Len(calls) - 1) :
        /\ calls[i].before = File(<<"0">>, "rw") =>
              /\ calls[i].result = Ok(1)
              /\ calls[i + 1].result = Ok(0)
              /\ calls[i + 1].after = File(<<"0">>, "rw")
        /\ calls[i].before = File(<<"1">>, "rw") =>
              /\ calls[i].result = Ok(0)
              /\ calls[i + 1].result = Ok(1)
              /\ calls[i + 1].after = File(<<"1">>, "rw")

\* a file holding "0" has been toggled twice, and then once more
C3_Witness ==
    /\ Len(calls) = 3
    /\ calls[1].before = File(<<"0">>, "rw")
    /\ calls[2].before = File(<<"1">>, "rw")

\* C4 as claimed: unparseable content fails with InvalidData ("Malformed
\* Data") and no failure of the read or of the write carries that kind.
C4_MalformedNeverAnIoKind ==
    \A c \in Returns :
        /\ Malformed(c) => c.result = Err("InvalidData", "cannot parse i32")
        /\ (~Succeeded(c) /\ ~Malformed(c)) => c.result.kind # "InvalidData"

\* C4 amended: unparseable content fails with InvalidData; a missing file, a
\* denied permission and a directory in place of the file fail with another
\* kind; content that is not valid UTF-8 fails the read with InvalidData as
\* well, told apart from Malformed Data by its message only.
C4_MalformedDistinctFromOsErrors ==
    \A c \in Returns :
        /\ Malformed(c) => c.result = Err("InvalidData", "cannot parse i32")
        /\ InvalidUtf8(c) =>
              c.result = Err("InvalidData", "stream did not contain valid UTF-8")
        /\ (~Succeeded(c) /\ ~Malformed(c) /\ ~InvalidUtf8(c)) =>
              c.result.kind \in {"NotFound", "PermissionDenied", "IsADirectory"}

\* a readable file holding letters only was toggled
C4_Witness ==
    \E c \in Returns :
        /\ c.before = File(<<"a", "a", "a">>, "rw")
        /\ c.result.kind = "InvalidData"

(* ------------------------------------------- two callers, the same device *)
RaceNodes ==
    {File(<<"0">>, "rw"), File(<<"1">>, "rw"), File(<<"1", "\n">>, "rw"),
     File(<<"-", "1">>, "rw"), File(<<"0">>, "ro"), File(<<"a">>, "rw"), Absent}

InitRace ==
    /\ fs \in [{DevA.bl_power} -> RaceNodes]
    /\ root_ok = TRUE
    /\ listing = <<>>
    /\ InitCommon

NextRace ==
    \E t \in Threads :
        \/ Call(t, DevA)
        \/ ToggleRead(t)
        \/ ToggleWrite(t)

SpecRace == InitRace /\ [][NextRace]_vars

\* the last four file operations were two reads by different callers and
\* then two writes: both calls read before either wrote
ReadsBeforeWrites ==
    LET n == Len(oplog)
    IN  /\ n >= 4
        /\ oplog[n - 3].op = "read" /\ oplog[n - 2].op = "read"
        /\ oplog[n - 3].who # oplog[n - 2].who
        /\ oplog[n - 1].op = "write" /\ oplog[n].op = "write"

\* the last two file operations were reads by different callers
BothHaveRead ==
    LET n == Len(oplog)
    IN  /\ n >= 2
        /\ oplog[n - 1].op = "read" /\ oplog[n].op = "read"
        /\ oplog[n - 1].who # oplog[n].who

\* C7: two concurrent toggles of one device are not serialized: when both
\* calls read before either writes they hold the same old value, both write
\* and return the same new value, and the file ends flipped once, not twice.
C7_LostUpdate ==
    /\ (BothHaveRead /\ th["t1"].pc = "write" /\ th["t2"].pc = "write") =>
          /\ th["t1"].old_value = th["t2"].old_value
          /\ th["t1"].new_value = th["t2"].new_value
    /\ ReadsBeforeWrites =>
          LET n == Len(calls)
              a == calls[n - 1]
              b == calls[n]
              once == IF a.old_value = 0 THEN 1 ELSE 0
          IN  (Succeeded(a) /\ Succeeded(b)) =>
                  /\ a.caller # b.caller
                  /\ a.old_value = b.old_value
                  /\ a.result = Ok(once) /\ b.result = Ok(once)
                  /\ fs[DevA.bl_power].data = to_string(once)
                  /\ fs[DevA.bl_power].data # to_string(1 - once)

\* both callers read "0" before either wrote, both returned 1, the file holds "1"
C7_Witness ==
    /\ ReadsBeforeWrites
    /\ Len(calls) = 2
    /\ calls[1].before = File(<<"0">>, "rw") /\ calls[2].before = File(<<"0">>, "rw")
    /\ calls[1].result = Ok(1) /\ calls[2].result = Ok(1)
    /\ calls[1].caller # calls[2].caller
    /\ fs[DevA.bl_power] = File(<<"1">>, "rw")

(* ----------------------------------------------- discovery over a root *)
Listings == SeqsUpTo(ListItems, MaxList)
DiscNodes == {Absent, Dir, File(<<"0">>, "rw")}

InitDisc ==
    /\ fs \in [ControlFiles -> DiscNodes]
    /\ root_ok \in BOOLEAN
    /\ listing \in Listings
    /\ InitCommon

NextDisc ==
    \/ DeviceIterNew
    \/ DeviceIterNext
    \/ IterateDevices
    \/ IterateDevicesNext

SpecDisc == InitDisc /\ [][NextDisc]_vars

\* the devices a listing prefix holds: its readable entries whose control
\* file is a regular file, in listing order, one per occurrence
HasControlFile(e) ==
    /\ e.ok
    /\ fs[<<"sys", "class", "backlight", e.name, "bl_power">>].kind = "file"
DevicesOf(lst) ==
    LET q == SelectSeq(lst, HasControlFile)
    IN  [i \in 1..Len(q) |->
            [path |-> <<"sys", "class", "backlight", q[i].name>>,
             bl_power |-> <<"sys", "class", "backlight", q[i].name, "bl_power">>]]
Finished(f) == it[f].readdir.some /\ it[f].advances > 0 /\ ~it[f].last.some
DistinctOkEntries(lst) ==
    /\ \A i \in 1..Len(lst) : lst[i].ok
    /\ \A i, j \in 1..Len(lst) : lst[i] = lst[j] => i = j

\* C5: enumeration yields a Device for a listed entry iff its control file
\* exists and is a regular file: what either form has yielded is exactly the
\* qualifying entries it has passed, in listing order, one per occurrence,
\* and a finished enumeration has yielded all of them (two out of three
\* subdirectories when only two hold the control file).
C5_YieldsExactlyQualifying ==
    \A f \in Forms :
        it[f].readdir.some =>
            /\ it[f].yielded = DevicesOf(SubSeq(listing, 1, it[f].readdir.pos - 1))
            /\ Finished(f) => it[f].yielded = DevicesOf(listing)

\* three distinct subdirectories, two with a control file, both forms finished
C5_Witness ==
    /\ Len(listing) = 3 /\ DistinctOkEntries(listing)
    /\ Cardinality({p \in ControlFiles : fs[p].kind = "file"}) = 2
    /\ \A f \in Forms : Finished(f) /\ Len(it[f].yielded) = 2

\* C6: when the root cannot be opened iterate_devices returns an I/O error
\* and no sequence, while DeviceIter::new constructs an instance whose
\* advances end the sequence with no value and no error.
C6_UnopenableRoot ==
    ~root_ok =>
        /\ it["iterate_devices"].state # "none" =>
              /\ it["iterate_devices"].state = "failed"
              /\ ~it["iterate_devices"].result.ok
              /\ it["iterate_devices"].result.kind = "NotFound"
              /\ it["iterate_devices"].advances = 0
              /\ it["iterate_devices"].yielded = <<>>
        /\ it["DeviceIter"].state # "none" =>
              /\ it["DeviceIter"].state = "open"
              /\ ~it["DeviceIter"].readdir.some
              /\ it["DeviceIter"].yielded = <<>>
              /\ ~it["DeviceIter"].last.some

\* over an unopenable root with a non-empty listing behind it, both forms
\* were used and the DeviceIter was advanced once
C6_Witness ==
    /\ ~root_ok
    /\ listing # <<>> /\ HasControlFile(listing[1])
    /\ it["iterate_devices"].state = "failed"
    /\ it["DeviceIter"].state = "open"
    /\ it["DeviceIter"].advances = 1
    /\ ~it["DeviceIter"].last.some

\* C9: an entry that errors while being listed is skipped: it yields no
\* Device, surfaces no error and does not end the sequence, so the sequence
\* ends only at the end of the listing with every qualifying entry yielded;
\* the only failure discovery surfaces is that of opening the root.
C9_ListingErrorsSkipped ==
    \A f \in Forms :
        /\ it[f].state = "failed" => (~root_ok /\ it[f].advances = 0)
        /\ it[f].state = "open" => it[f].result.ok \/ it[f].result = NoResult
        /\ \A j \in 1..Len(it[f].yielded) :
              \E i \in 1..Len(listing) :
                  listing[i].ok /\ it[f].yielded[j].path = EntryPath(listing[i].name)
        /\ Finished(f) =>
              /\ it[f].readdir.pos = Len(listing) + 1
              /\ \A i \in 1..Len(listing) :
                    HasControlFile(listing[i]) =>
                        \E j \in 1..Len(it[f].yielded) :
                            it[f].yielded[j].path = EntryPath(listing[i].name)

\* a listing whose first entry errors and whose last entry qualifies was
\* enumerated to its end by both forms
C9_Witness ==
    /\ Len(listing) = 3
    /\ ~listing[1].ok /\ ~listing[2].ok /\ HasControlFile(listing[3])
    /\ \A f \in Forms : Finished(f) /\ Len(it[f].yielded) = 1

(* ------------------------------------------------------- the driver run *)
\* a directory lists each of its entries once
NoRepeats(lst) ==
    \A i, j \in 1..Len(lst) : (lst[i].ok /\ lst[i] = lst[j]) => i = j
DrvListings == {l \in Listings : NoRepeats(l)}
DrvNodes ==
    {Absent, File(<<"0">>, "rw"), File(<<"1">>, "rw"), File(<<"a">>, "rw"),
     File(<<"1">>, "ro")}

InitDriver ==
    /\ fs \in [ControlFiles -> DrvNodes]
    /\ root_ok \in BOOLEAN
    /\ listing \in DrvListings
    /\ InitCommon

NextDriver ==
    \/ MainStart
    \/ MainNext
    \/ ToggleRead("main")
    \/ ToggleWrite("main")
    \/ MainResume

SpecDriver == InitDriver /\ [][NextDriver]_vars

Listed(e) == \E i \in 1..Len(listing) : listing[i] = OkEntry(e)
CallsOn(p) == {i \in 1..Len(calls) : calls[i].bl_power = p}
OpsOn(p) == {i \in 1..Len(oplog) : oplog[i].path = p}

\* C8: a driver run with no failure and no other writer ends with the control
\* file of every listed device that has one toggled exactly once, a "0"
\* turned into "1" and a "1" into "0", whatever the listing order, and with
\* every other control file as it was.
C8_RunFlipsEveryDevice ==
    (drv.pc = "exit" /\ drv.status.ok) =>
        \A e \in Entries :
            LET p == <<"sys", "class", "backlight", e, "bl_power">>
            IN  IF Listed(e) /\ fs0[p].kind = "file"
                THEN /\ Cardinality(CallsOn(p)) = 1
                     /\ fs0[p].data = <<"0">> => fs[p] = File(<<"1">>, "rw")
                     /\ fs0[p].data = <<"1">> => fs[p] = File(<<"0">>, "rw")
                ELSE fs[p] = fs0[p] /\ CallsOn(p) = {}

\* devB is listed before devA; devA held "1" and devB held "0"; the run ended
\* without error with devA holding "0" and devB holding "1"
C8_Witness ==
    /\ drv.pc = "exit" /\ drv.status.ok
    /\ listing = <<OkEntry("devB"), OkEntry("devC"), OkEntry("devA")>>
    /\ fs0[bl_power(EntryPath("devA"))] = File(<<"1">>, "rw")
    /\ fs0[bl_power(EntryPath("devB"))] = File(<<"0">>, "rw")
    /\ fs0[bl_power(EntryPath("devC"))] = Absent
    /\ fs[bl_power(EntryPath("devA"))] = File(<<"0">>, "rw")
    /\ fs[bl_power(EntryPath("devB"))] = File(<<"1">>, "rw")

\* C10: the first error main meets, from opening the root or from a toggle,
\* ends the run with that error: no device later in the sequence is read or
\* written, and the devices toggled before keep their flipped value.
C10_FirstErrorAborts ==
    /\ \A i \in 1..Len(calls) :
          ~Succeeded(calls[i]) =>
              /\ i = Len(calls)
              /\ drv.pc \in {"toggle", "exit"}
              /\ th["main"].pc = "ret"
              /\ oplog[Len(oplog)].path = calls[i].bl_power
    /\ (drv.pc = "exit" /\ drv.status.ok) =>
          (root_ok /\ \A i \in 1..Len(calls) : Succeeded(calls[i]))
    /\ (drv.pc = "exit" /\ ~drv.status.ok) =>
          IF drv.iter.state = "failed"
          THEN ~root_ok /\ calls = <<>> /\ oplog = <<>> /\ fs = fs0
          ELSE /\ calls # <<>>
               /\ drv.status = calls[Len(calls)].result
               /\ \A i \in 1..(Len(calls) - 1) :
                     /\ Succeeded(calls[i])
                     /\ fs[calls[i].bl_power] = calls[i].after
                     /\ fs[calls[i].bl_power].data = to_string(calls[i].result.value)
               /\ \A k \in drv.iter.readdir.pos..Len(listing) :
                     listing[k].ok =>
                        /\ OpsOn(bl_power(EntryPath(listing[k].name))) = {}
                        /\ fs[bl_power(EntryPath(listing[k].name))]
                              = fs0[bl_power(EntryPath(listing[k].name))]

\* the first device was toggled, the toggle of the second failed, a third
\* device with a control file was never reached, and main has left
C10_Witness ==
    /\ drv.pc = "exit" /\ ~drv.status.ok
    /\ Len(calls) = 2
    /\ Succeeded(calls[1]) /\ ~Succeeded(calls[2])
    /\ fs[calls[1].bl_power] # fs0[calls[1].bl_power]
    /\ Len(listing) = 3
    /\ drv.iter.readdir.pos = 3
    /\ HasControlFile(listing[3])

\* C11: every Device either discovery form yields over a root is a direct
\* child of that root: the parent of its path is the root the listing was
\* opened on, one level below it and nowhere else.
C11_YieldedAreChildrenOfRoot ==
    \A f \in Forms :
        \A j \in 1..Len(it[f].yielded) :
            /\ parent(it[f].yielded[j].path) = BACKLIGHT_PATH
            /\ parent(it[f].yielded[j].path) = it[f].readdir.root
            /\ Len(it[f].yielded[j].path) = Len(BACKLIGHT_PATH) + 1

\* both forms have yielded three devices
C11_Witness ==
    \A f \in Forms : Len(it[f].yielded) = 3

(* ------------------------------------------- a caller that builds a Device *)
DevPaths == {<<"sys", "class", "backlight", "devA">>, <<"dev">>}
OverrideNames == {"brightness"}
DevFiles == {join(p, n) : p \in DevPaths, n \in {BL_POWER} \cup OverrideNames}
DevNodes == {Absent, File(<<"0">>, "rw"), File(<<"1">>, "ro"), File(<<"a">>, "rw")}

\* let dev = Device::new(p)
ConstructNew(p) ==
    /\ made = NotMade
    /\ made' = [dev |-> Device_new(p), by |-> "new", path |-> p, override |-> NoName]
    /\ UNCHANGED <<fs, root_ok, listing, th, calls, oplog, it, drv, fs0, envlog>>

\* let dev = Device::custom(p, q)
ConstructCustom(p, q) ==
    /\ made = NotMade
    /\ made' = [dev |-> Device_custom(p, q), by |-> "custom", path |-> p, override |-> q]
    /\ UNCHANGED <<fs, root_ok, listing, th, calls, oplog, it, drv, fs0, envlog>>

\* let dev = DeviceIter::default().next(), when it is Some
ConstructByDiscovery ==
    /\ made = NotMade
    /\ LET r == DeviceIter_next(fs, listing, DeviceIter_new(root_ok, BACKLIGHT_PATH))
       IN  /\ r.item.some
           /\ made' = [dev |-> r.item.dev, by |-> "discovery",
                       path |-> join(BACKLIGHT_PATH, listing[r.readdir.pos - 1].name),
                       override |-> NoName]
    /\ UNCHANGED <<fs, root_ok, listing, th, calls, oplog, it, drv, fs0, envlog>>

\* dev.toggle()
CallMade(c) ==
    /\ made # NotMade
    /\ Call(c, made.dev)

InitDevice ==
    /\ fs \in [DevFiles -> DevNodes]
    /\ root_ok = TRUE
    /\ listing \in {<<OkEntry("devA")>>, <<ErrEntry, OkEntry("devA")>>}
    /\ InitCommon

NextDevice ==
    \/ \E p \in DevPaths : ConstructNew(p)
    \/ \E p \in DevPaths : \E q \in {NoName} \cup {SomeName(n) : n \in OverrideNames} :
            ConstructCustom(p, q)
    \/ ConstructByDiscovery
    \/ CallMade("t1")
    \/ ToggleRead("t1")
    \/ ToggleWrite("t1")

SpecDevice == InitDevice /\ [][NextDevice]_vars

\* the control-file location is the path and one more segment
OneSegmentBelow(d) ==
    /\ Len(d.bl_power) = Len(d.path) + 1
    /\ SubSeq(d.bl_power, 1, Len(d.path)) = d.path

\* C12: the control-file location of a Device, however it was built, is its
\* path joined with exactly one segment, "bl_power" when no override is
\* given, and the Device a caller holds is the same value before and after
\* every step of every toggle, successful or failed.
C12_ControlPathFixed ==
    [][/\ made' # NotMade =>
             /\ made'.dev.path = made'.path
             /\ OneSegmentBelow(made'.dev)
             /\ ~made'.override.some =>
                   made'.dev.bl_power = made'.path \o <<"bl_power">>
             /\ made'.override.some =>
                   made'.dev.bl_power = made'.path \o <<made'.override.name>>
       /\ made # NotMade => made' = made
       /\ th'["t1"].pc # "idle" => th'["t1"].dev = made'.dev
      ]_vars

\* a Device built without an override has been toggled three times, the
\* file written each time
C12_Witness ==
    /\ made.by = "new"
    /\ made.dev.bl_power = <<"dev", "bl_power">>
    /\ Len(calls) = 3
    /\ \A i \in 1..3 : Succeeded(calls[i]) /\ calls[i].after # calls[i].before

(* ------------------------------------------- a toggle that is cut short *)
\* the process dies, or the call is abandoned, before toggle() has returned
Crash(c) ==
    /\ th[c].pc \in {"read", "write"}
    /\ th' = [th EXCEPT ![c].pc =
                IF th[c].pc = "read" THEN "crashed_before_read"
                                     ELSE "crashed_after_read"]
    /\ UNCHANGED <<fs, root_ok, listing, calls, oplog, it, drv, fs0, made, envlog>>

NextCrash ==
    \/ Call("t1", DevA)
    \/ ToggleRead("t1")
    \/ ToggleWrite("t1")
    \/ Crash("t1")

SpecCrash == InitToggle /\ [][NextCrash]_vars

\* the control file as the running call found it when it was invoked
AtCallStart ==
    IF calls = <<>> THEN fs0[DevA.bl_power] ELSE calls[Len(calls)].after

\* C13: toggle reads and then, in a separate step, writes: every write comes
\* right after the read of the same call, and until that write is issued,
\* so also after a crash between the two steps, the control file holds
\* exactly the content it had when the call began.
C13_CrashBeforeWriteKeepsContent ==
    /\ \A i \in 1..Len(oplog) :
          oplog[i].op = "write" =>
              /\ i > 1
              /\ oplog[i - 1] = [oplog[i] EXCEPT !.op = "read"]
    /\ th["t1"].pc \in {"read", "write", "crashed_before_read", "crashed_after_read"} =>
          fs[DevA.bl_power] = AtCallStart
    /\ th["t1"].pc \in {"write", "crashed_after_read"} =>
          /\ oplog # <<>> /\ oplog[Len(oplog)].op = "read"
          /\ fs[DevA.bl_power] = th["t1"].before

\* after one complete toggle of "0\n", the second call read "1", computed 0
\* and was cut short before writing: the file still holds "1"
C13_Witness ==
    /\ th["t1"].pc = "crashed_after_read"
    /\ fs0[DevA.bl_power] = File(<<"0", "\n">>, "rw")
    /\ Len(calls) = 1 /\ Succeeded(calls[1])
    /\ th["t1"].old_value = 1 /\ th["t1"].new_value = 0
    /\ fs[DevA.bl_power] = File(<<"1">>, "rw")

ReadOps == {i \in 1..Len(oplog) : oplog[i].op = "read"}
WriteOps == {i \in 1..Len(oplog) : oplog[i].op = "write"}

\* C14: a toggle whose read or parse fails issues one read and no write,
\* leaves the control file as it was and returns that error; a toggle whose
\* write fails returns the error of the write and reports no value.
C14_FailureIsReturnedWithoutRecovery ==
    /\ \A c \in Returns :
          /\ ~TextRead(c).ok =>
                c.result = TextRead(c) /\ ~c.read_ok /\ c.after = c.before
          /\ Malformed(c) =>
                /\ c.result = Err("InvalidData", "cannot parse i32")
                /\ ~c.read_ok /\ c.after = c.before
          /\ (c.read_ok /\ ~Succeeded(c)) =>
                /\ DOMAIN c.result = {"ok", "kind", "msg"}
                /\ c.result = fs_write(DevA.bl_power :> c.before, DevA.bl_power, <<>>).res
    /\ Cardinality(ReadOps) =
          Len(calls) + (IF th["t1"].pc = "write" THEN 1 ELSE 0)
    /\ Cardinality(WriteOps) = Cardinality({i \in 1..Len(calls) : calls[i].read_ok})

\* a file holding only a sign was toggled twice: two reads, no write
C14_Witness ==
    /\ Len(calls) = 2
    /\ calls[1].before = File(<<"-">>, "rw")
    /\ ~Succeeded(calls[2])
    /\ Len(oplog) = 2
    /\ fs = fs0

NextEntryOps(f) == {i \in 1..Len(it[f].ops) : it[f].ops[i].op = "next_entry"}
IsFileOps(f) == {i \in 1..Len(it[f].ops) : it[f].ops[i].op = "is_file"}
IsCheck(o) == o.op = "is_file"
IsOkEntry(e) == e.ok
\* the control files of the readable entries of a listing prefix, in order
ChecksOf(lst) ==
    LET q == SelectSeq(lst, IsOkEntry)
    IN  [i \in 1..Len(q) |->
            [op |-> "is_file", arg |-> <<"sys", "class", "backlight", q[i].name, "bl_power">>]]

\* C15 as claimed: every advance makes exactly one listing advance and one
\* control-file check (none when the listing has ended).
C15_OneStepPerAdvance ==
    \A f \in Forms :
        it[f].readdir.some =>
            /\ Cardinality(NextEntryOps(f)) = it[f].advances
            /\ Cardinality(IsFileOps(f)) <= it[f].advances

\* C15 amended: an advance pulls entries until one qualifies or the listing
\* ends, one listing advance per entry pulled and one check per readable
\* entry pulled, so at least one listing advance and possibly several; the
\* checks made so far are those of the entries passed, each once and in
\* listing order, so no entry is listed or checked again.
C15_ForwardOnlyOnePassPerEntry ==
    \A f \in Forms :
        IF it[f].readdir.some
        THEN /\ it[f].readdir.pos \in 1..(Len(listing) + 1)
             /\ SelectSeq(it[f].ops, IsCheck)
                   = ChecksOf(SubSeq(listing, 1, it[f].readdir.pos - 1))
             /\ Cardinality(NextEntryOps(f))
                   = (it[f].readdir.pos - 1) + (it[f].advances - Len(it[f].yielded))
             /\ Cardinality(NextEntryOps(f)) >= it[f].advances
             /\ it[f].advances > Len(it[f].yielded) =>
                   it[f].readdir.pos = Len(listing) + 1
        ELSE NextEntryOps(f) = {} /\ IsFileOps(f) = {}

\* the first advance of both forms passed an entry that failed to list and
\* one without a control file before it yielded the third; a second advance
\* found the end
C15_Witness ==
    /\ Len(listing) = 3
    /\ ~listing[1].ok
    /\ listing[2].ok /\ ~HasControlFile(listing[2])
    /\ HasControlFile(listing[3])
    /\ \A f \in Forms :
          /\ it[f].advances = 2 /\ Len(it[f].yielded) = 1
          /\ Cardinality(NextEntryOps(f)) = 4
          /\ Cardinality(IsFileOps(f)) = 2

(* ------------------------------- discovery while the device tree changes *)
\* what another process does is recorded with the point each discovery
\* instance had reached at that moment
EnvEvent(ev, path) ==
    [ev |-> ev, path |-> path,
     state |-> [f \in Forms |-> it[f].state],
     pos |-> [f \in Forms |-> it[f].readdir.pos],
     advances |-> [f \in Forms |-> it[f].advances]]

\* the root directory becomes openable
RootAppears ==
    /\ ~root_ok
    /\ Len(envlog) < MaxEnv
    /\ root_ok' = TRUE
    /\ envlog' = Append(envlog, EnvEvent("root_appears", BACKLIGHT_PATH))
    /\ UNCHANGED <<fs, listing, th, calls, oplog, it, drv, fs0, made>>

\* the control file of a device goes away
RemoveControlFile(p) ==
    /\ fs[p].kind = "file"
    /\ Len(envlog) < MaxEnv
    /\ fs' = [fs EXCEPT ![p] = Absent]
    /\ envlog' = Append(envlog, EnvEvent("remove", p))
    /\ UNCHANGED <<root_ok, listing, th, calls, oplog, it, drv, fs0, made>>

\* devA and devB are listed, readable or not; devC has no control file
DynItems == {OkEntry("devA"), OkEntry("devB"), ErrEntry}
DynListings == SeqsUpTo(DynItems, MaxDynList)
DynTrees ==
    {f \in [ControlFiles -> {Absent, File(<<"0">>, "rw")}] :
        f[bl_power(EntryPath("devC"))] = Absent}

\* the control files come and go while both forms enumerate an open root
InitDyn ==
    /\ fs \in DynTrees
    /\ root_ok = TRUE
    /\ listing \in DynListings
    /\ InitCommon

NextDyn ==
    \/ DeviceIterNew
    \/ DeviceIterNext
    \/ IterateDevices
    \/ IterateDevicesNext
    \/ \E p \in ControlFiles : RemoveControlFile(p)

SpecDyn == InitDyn /\ [][NextDyn]_vars

\* the root may become openable while a DeviceIter is in use
InitRoot ==
    /\ fs \in DynTrees
    /\ root_ok \in BOOLEAN
    /\ listing \in DynListings
    /\ InitCommon

NextRoot ==
    \/ DeviceIterNew
    \/ DeviceIterNext
    \/ RootAppears

SpecRoot == InitRoot /\ [][NextRoot]_vars

\* C16: a DeviceIter built while the root could not be opened has no listing
\* handle and never gets one: every later step leaves it without a handle,
\* with nothing yielded, its advances returning no value and issuing no
\* file-system operation, also after the root has become openable.
C16_AbsentHandleIsSticky ==
    [][(it["DeviceIter"].state = "open" /\ ~it["DeviceIter"].readdir.some) =>
          /\ it'["DeviceIter"].state = "open"
          /\ it'["DeviceIter"].readdir = it["DeviceIter"].readdir
          /\ it'["DeviceIter"].yielded = <<>>
          /\ ~it'["DeviceIter"].last.some
          /\ it'["DeviceIter"].ops = it["DeviceIter"].ops
      ]_vars

\* the root became openable after the DeviceIter was built without a handle,
\* a device with a control file is listed, and an advance made after that
\* returned nothing
C16_Witness ==
    /\ root_ok
    /\ listing # <<>> /\ HasControlFile(listing[1])
    /\ it["DeviceIter"].state = "open" /\ ~it["DeviceIter"].readdir.some
    /\ ~it["DeviceIter"].last.some
    /\ \E k \in 1..Len(envlog) :
          /\ envlog[k].ev = "root_appears"
          /\ envlog[k].state["DeviceIter"] = "open"
          /\ envlog[k].advances["DeviceIter"] < it["DeviceIter"].advances

\* entry i of the listing had a regular control file when instance f reached it
RegularAtPass(f, i) ==
    LET p == <<"sys", "class", "backlight", listing[i].name, "bl_power">>
    IN  /\ listing[i].ok
        /\ fs0[p].kind = "file"
        /\ ~\E k \in 1..Len(envlog) :
               /\ envlog[k].ev = "remove"
               /\ envlog[k].path = p
               /\ envlog[k].pos[f] <= i

RECURSIVE YieldedUpTo(_, _)
YieldedUpTo(f, n) ==
    IF n = 0 THEN <<>>
    ELSE IF RegularAtPass(f, n)
    THEN Append(YieldedUpTo(f, n - 1),
                [path |-> <<"sys", "class", "backlight", listing[n].name>>,
                 bl_power |-> <<"sys", "class", "backlight", listing[n].name, "bl_power">>])
    ELSE YieldedUpTo(f, n - 1)

\* C17: creating the sequence checks no entry, and an entry is yielded iff
\* its control file is a regular file at the advance that reaches it: a
\* control file removed before that advance, also after the sequence was
\* created, makes the entry not yielded, one removed later does not.
C17_CheckedWhenReached ==
    \A f \in Forms :
        /\ it[f].advances = 0 => (NextEntryOps(f) = {} /\ IsFileOps(f) = {})
        /\ it[f].readdir.some =>
              it[f].yielded = YieldedUpTo(f, it[f].readdir.pos - 1)

\* both forms were created while the only listed device had its control
\* file; the file was removed before either advanced, and neither yielded it
C17_Witness ==
    /\ Len(listing) = 1 /\ listing[1].ok
    /\ fs0[bl_power(EntryPath(listing[1].name))].kind = "file"
    /\ Len(envlog) = 1
    /\ envlog[1].ev = "remove"
    /\ envlog[1].path = bl_power(EntryPath(listing[1].name))
    /\ \A f \in Forms :
          /\ envlog[1].state[f] = "open" /\ envlog[1].pos[f] = 1
          /\ it[f].readdir.pos = 2
          /\ it[f].yielded = <<>>

\* C18: a step changes a control file only when it is the write step of a
\* toggle of the device that file belongs to; every other control file, the
\* listing and the root stay as they are, and the steps that open the
\* root, advance discovery and build a Device write nothing.
C18_ToggleTouchesOnlyItsDevice ==
    [][/\ listing' = listing
       /\ root_ok' = root_ok
       /\ DOMAIN fs' = DOMAIN fs
       /\ \A p \in DOMAIN fs :
             fs'[p] # fs[p] =>
                 /\ th["main"].pc = "write"
                 /\ th["main"].dev.bl_power = p
                 /\ th["main"].dev \in {drv.printed[j] : j \in 1..Len(drv.printed)}
       /\ (drv'.iter # drv.iter \/ drv'.printed # drv.printed) => fs' = fs
      ]_vars

\* the second listed device has been toggled and flipped while the first
\* and the third, toggled before or not at all, hold what they held
C18_Witness ==
    /\ Len(listing) = 3
    /\ \A i \in 1..3 : HasControlFile(listing[i])
    /\ Len(calls) = 2 /\ Succeeded(calls[2])
    /\ calls[2].after # calls[2].before
    /\ fs[bl_power(EntryPath(listing[1].name))] = calls[1].after
    /\ fs[bl_power(EntryPath(listing[3].name))] = fs0[bl_power(EntryPath(listing[3].name))]

IsPrefix(a, b) == Len(a) <= Len(b) /\ SubSeq(b, 1, Len(a)) = a

====
